---- MODULE Spec2Model ----
(***************************************************************************)
(* Model of scripts/sync-runtime-config.mjs: the start-up pass that merges *)
(* environment-supplied settings into the persisted JSON configuration.    *)
(*                                                                         *)
(* Strings are sequences of tokens (a token stands for a run of            *)
(* characters; " " is white space and "/" the slash), so that trim and     *)
(* providerFromModel are computed as the code computes them.  A JSON       *)
(* scalar is a record [type, text]; a value that may be missing is a       *)
(* sequence of length 0 or 1; a key that should hold an object or an array *)
(* is a record [kind, ...] with kind "absent", "object"/"array" or "other".*)
(***************************************************************************)
EXTENDS Integers, Sequences, FiniteSets, TLC

\* ---------------------------------------------------------------- bounds
MaxFallbacks == 2
MaxPasses == 2

\* ------------------------------------------------------------ JS strings
None == <<>>
Some(v) == <<v>>
Range(s) == {s[i] : i \in 1..Len(s)}

RECURSIVE trimStart(_)
trimStart(s) ==
  IF s # <<>> /\ Head(s) = " " THEN trimStart(Tail(s)) ELSE s

RECURSIVE trimEnd(_)
trimEnd(s) ==
  IF s # <<>> /\ s[Len(s)] = " " THEN trimEnd(SubSeq(s, 1, Len(s) - 1)) ELSE s

JStr(t) == [type |-> "string", text |-> t]
JNum(t) == [type |-> "number", text |-> t]
JNaN == [type |-> "nan", text |-> <<"NaN">>]
JNull == [type |-> "null", text |-> <<"null">>]
JTrue == [type |-> "boolean", text |-> <<"true">>]
JFalse == [type |-> "boolean", text |-> <<"false">>]

\* String(value ?? "").trim() on an optional JSON scalar
trim(value) ==
  IF value = None \/ value[1].type = "null" THEN <<>>
  ELSE trimEnd(trimStart(value[1].text))

\* trim(process.env[name]): the environment holds plain strings
trimEnv(e, name) == trimEnd(trimStart(e[name]))

\* a !== b on optional JSON scalars (NaN differs from everything)
StrictNe(a, b) ==
  IF a = None \/ b = None THEN a # b
  ELSE a[1].type = "nan" \/ b[1].type = "nan" \/ a[1] # b[1]

\* Number(s) for the trimmed strings the model feeds it
Number(s) ==
  IF s = <<"4">> \/ s = <<"0", "4">> THEN JNum(<<"4">>)
  ELSE IF s = <<"2">> THEN JNum(<<"2">>)
  ELSE JNaN

IndexOfSlash(m) == CHOOSE i \in 1..Len(m) : m[i] = "/" /\ \A j \in 1..(i - 1) : m[j] # "/"

providerFromModel(model) ==
  LET m == trim(model)
  IN IF "/" \in Range(m) THEN SubSeq(m, 1, IndexOfSlash(m) - 1) ELSE <<>>

RECURSIVE uniqueFrom(_, _)
uniqueFrom(values, seen) ==
  IF values = <<>> THEN <<>>
  ELSE LET v == Head(values)
           n == trim(Some(v))
       IN IF v.type # "string" \/ n = <<>> \/ n \in seen
          THEN uniqueFrom(Tail(values), seen)
          ELSE <<v>> \o uniqueFrom(Tail(values), seen \cup {n})

toUniqueStrings(values) == uniqueFrom(values, {})

\* ------------------------------------------------------- provider table
Sonnet == JStr(<<"anthropic", "/", "claude-sonnet-4-5">>)
Haiku == JStr(<<"anthropic", "/", "claude-haiku-4-5">>)
Codex53 == JStr(<<"openai-codex", "/", "gpt-5.3-codex">>)
Codex52 == JStr(<<"openai-codex", "/", "gpt-5.2-codex">>)
Gpt52 == JStr(<<"openai", "/", "gpt-5.2">>)
Gpt4o == JStr(<<"openai", "/", "gpt-4o">>)
Gemini == JStr(<<"google", "/", "gemini-3-pro-preview">>)

PROVIDERS ==
  << [provider |-> <<"anthropic">>, envVar |-> "ANTHROPIC_API_KEY",
      profileKey |-> "anthropic:default",
      primaryModel |-> Sonnet, fallbackModels |-> <<Haiku>>],
     [provider |-> <<"openai-codex">>, envVar |-> "OPENAI_API_KEY",
      profileKey |-> "openai-codex:default",
      primaryModel |-> Codex53, fallbackModels |-> <<Codex52>>],
     [provider |-> <<"openai">>, envVar |-> "OPENAI_API_KEY",
      profileKey |-> "openai:default",
      primaryModel |-> Gpt52, fallbackModels |-> <<Gpt4o>>],
     [provider |-> <<"google">>, envVar |-> "GOOGLE_API_KEY",
      profileKey |-> "google:default",
      primaryModel |-> Gemini, fallbackModels |-> <<>>] >>

ProfileKeys == {PROVIDERS[i].profileKey : i \in 1..Len(PROVIDERS)}

\* PROVIDERS_BY_NAME.get(p): a sequence of length 0 (undefined) or 1
PROVIDERS_BY_NAME(p) ==
  LET hits == {i \in 1..Len(PROVIDERS) : PROVIDERS[i].provider = p}
  IN IF hits = {} THEN None ELSE Some(PROVIDERS[CHOOSE i \in hits : TRUE])

\* ------------------------------------------------------------ document
Absent(empty) == [kind |-> "absent", val |-> empty]
Object(v) == [kind |-> "object", val |-> v]
\* a value that is not a plain object (a string, a number, an array, null)
Other(empty) == [kind |-> "other", val |-> empty]

NoArray == [kind |-> "absent", items |-> <<>>]
Array(items) == [kind |-> "array", items |-> items]

EmptyEnabled == [enabled |-> None]
EmptyModel == [primary |-> None, fallbacks |-> NoArray, extra |-> None]
EmptyPruning == [mode |-> None, ttl |-> None]
EmptyCompaction == [mode |-> None]
EmptyHeartbeat == [every |-> None]
EmptyDefaults ==
  [workspace |-> None, model |-> Absent(EmptyModel),
   thinkingDefault |-> None, maxConcurrent |-> None,
   contextPruning |-> Absent(EmptyPruning),
   compaction |-> Absent(EmptyCompaction),
   heartbeat |-> Absent(EmptyHeartbeat), extra |-> None]
EmptyAgents == [defaults |-> Absent(EmptyDefaults)]
EmptyProfiles == [k \in ProfileKeys |-> None]
EmptyAuth == [profiles |-> Absent(EmptyProfiles)]
EmptyGwAuth == [mode |-> None, token |-> None, extra |-> None]
EmptyGateway == [auth |-> Absent(EmptyGwAuth)]
EmptyChannels == [telegram |-> Absent(EmptyEnabled), discord |-> Absent(EmptyEnabled)]
EmptyPlugins == [entries |-> Absent(EmptyChannels)]

\* the value JSON.parse returns: root is "object", "array" (an array at the
\* top level) or "scalar" (null, a number, a string, a boolean)
EmptyDoc ==
  [root |-> "object", agents |-> Absent(EmptyAgents), auth |-> Absent(EmptyAuth),
   gateway |-> Absent(EmptyGateway), channels |-> Absent(EmptyChannels),
   plugins |-> Absent(EmptyPlugins), extra |-> None]

\* ensureObject(target, key), as the new value of target[key]
ensureObject(slot, empty) ==
  IF slot.kind # "object" THEN Object(empty) ELSE slot

\* JSON.stringify(config): NaN is written as null; the named properties set
\* on a top-level array are not part of its serialization
JSONstringify(c) ==
  IF c.root = "array" THEN [EmptyDoc EXCEPT !.root = "array"]
  ELSE IF c.agents.kind = "object" /\ c.agents.val.defaults.kind = "object"
          /\ c.agents.val.defaults.val.maxConcurrent = Some(JNaN)
       THEN [c EXCEPT !.agents.val.defaults.val.maxConcurrent = Some(JNull)]
       ELSE c

\* ---------------------------------------------------------------- files
NoFile == [exists |-> FALSE, parses |-> FALSE, json |-> EmptyDoc]
Malformed == [exists |-> TRUE, parses |-> FALSE, json |-> EmptyDoc]
FileOf(text) == [exists |-> TRUE, parses |-> TRUE, json |-> text]

\* variant: the existence test looks at a path that is never there
existsSyncNever(f) == FALSE

existsSync(f) == f.exists

\* variant: a file that cannot be read or parsed yields null
readConfigNull(f) ==
  IF f.exists /\ f.parses THEN f.json ELSE [EmptyDoc EXCEPT !.root = "scalar"]

\* readConfig: a missing or unparseable file reads as {}
readConfig(f) ==
  IF f.exists /\ f.parses THEN f.json ELSE EmptyDoc

\* ----------------------------------------------------------- environment
EnvVars ==
  {"OPENCLAW_STATE_DIR", "OPENCLAW_WORKSPACE_DIR",
   "ANTHROPIC_API_KEY", "OPENAI_API_KEY", "GOOGLE_API_KEY",
   "OPENCLAW_THINKING_DEFAULT", "OPENCLAW_MAX_CONCURRENT",
   "OPENCLAW_CONTEXT_PRUNING_MODE", "OPENCLAW_CONTEXT_PRUNING_TTL",
   "OPENCLAW_COMPACTION_MODE", "OPENCLAW_HEARTBEAT_EVERY",
   "OPENCLAW_GATEWAY_TOKEN", "TELEGRAM_BOT_TOKEN",
   "DISCORD_BOT_TOKEN", "DISCORD_GUILD_ID"}

NoEnv == [v \in EnvVars |-> <<>>]

stateDirOf(e) ==
  IF trimEnv(e, "OPENCLAW_STATE_DIR") # <<>>
  THEN trimEnv(e, "OPENCLAW_STATE_DIR") ELSE <<"/data">>

\* ------------------------------------------------------ workspace rule
WorkspaceRule(c, e) ==
  LET desiredWorkspace ==
        IF trimEnv(e, "OPENCLAW_WORKSPACE_DIR") # <<>>
        THEN trimEnv(e, "OPENCLAW_WORKSPACE_DIR")
        ELSE stateDirOf(e) \o <<"/workspace">>
      agents == ensureObject(c.agents, EmptyAgents)
      defaults == ensureObject(agents.val.defaults, EmptyDefaults)
      defaults2 ==
        IF StrictNe(defaults.val.workspace, Some(JStr(desiredWorkspace)))
        THEN [defaults EXCEPT !.val.workspace = Some(JStr(desiredWorkspace))]
        ELSE defaults
  IN [c EXCEPT !.agents = [agents EXCEPT !.val.defaults = defaults2]]

\* -------------------------------------------------- auth profiles rule
\* variant: the loop without the seenEnvVars test
RECURSIVE providerLoopNoDedup(_, _, _, _, _)
providerLoopNoDedup(i, e, seenEnvVars, availableProviders, profiles) ==
  IF i > Len(PROVIDERS)
  THEN [availableProviders |-> availableProviders, profiles |-> profiles]
  ELSE LET pc == PROVIDERS[i]
       IN IF trimEnv(e, pc.envVar) = <<>>
          THEN providerLoopNoDedup(i + 1, e, seenEnvVars, availableProviders, profiles)
          ELSE providerLoopNoDedup(i + 1, e, seenEnvVars \cup {pc.envVar},
                                   Append(availableProviders, pc.provider),
                                   [profiles EXCEPT ![pc.profileKey] =
                                      Some([mode |-> Some(JStr(<<"token">>)),
                                            provider |-> Some(JStr(pc.provider)),
                                            extra |-> None])])

\* the loop over PROVIDERS from entry i on: the providers pushed to
\* availableProviders and the auth.profiles map it leaves
RECURSIVE providerLoop(_, _, _, _, _)
providerLoop(i, e, seenEnvVars, availableProviders, profiles) ==
  IF i > Len(PROVIDERS)
  THEN [availableProviders |-> availableProviders, profiles |-> profiles]
  ELSE LET pc == PROVIDERS[i]
       IN IF trimEnv(e, pc.envVar) = <<>>
          THEN providerLoop(i + 1, e, seenEnvVars, availableProviders, profiles)
          ELSE IF pc.envVar \in seenEnvVars
          THEN providerLoop(i + 1, e, seenEnvVars, availableProviders, profiles)
          ELSE LET existing == profiles[pc.profileKey]
                   fresh == [mode |-> Some(JStr(<<"token">>)),
                             provider |-> Some(JStr(pc.provider)),
                             extra |-> None]
                   stale == existing = None
                            \/ StrictNe(existing[1].mode, Some(JStr(<<"token">>)))
                            \/ StrictNe(existing[1].provider, Some(JStr(pc.provider)))
               IN providerLoop(i + 1, e, seenEnvVars \cup {pc.envVar},
                               Append(availableProviders, pc.provider),
                               IF stale
                               THEN [profiles EXCEPT ![pc.profileKey] = Some(fresh)]
                               ELSE profiles)

AvailableProviders(e) == providerLoop(1, e, {}, <<>>, EmptyProfiles).availableProviders

AuthProfilesRule(c, e) ==
  LET auth == ensureObject(c.auth, EmptyAuth)
      profiles == ensureObject(auth.val.profiles, EmptyProfiles)
      out == providerLoop(1, e, {}, <<>>, profiles.val)
  IN [c EXCEPT !.auth = [auth EXCEPT !.val.profiles = Object(out.profiles)]]

\* ------------------------------------------------- model selection rule
\* variant: the primary is reset only when there is none
resetsPrimaryOnlyEmpty(currentPrimary, currentProvider, availableProviders) ==
  currentPrimary = <<>>

\* variant: the primary is reset whenever it is not of the first available
\* provider
resetsPrimaryToFirst(currentPrimary, currentProvider, availableProviders) ==
  currentPrimary = <<>> \/ currentProvider # availableProviders[1]

\* Only reset primary if it points to a provider with no key.
resetsPrimary(currentPrimary, currentProvider, availableProviders) ==
  currentPrimary = <<>> \/ currentProvider \notin Range(availableProviders)

\* [pc.primaryModel, ...pc.fallbackModels] of each listed provider, in order
RECURSIVE modelsOf(_)
modelsOf(providers) ==
  IF providers = <<>> THEN <<>>
  ELSE LET pc == PROVIDERS_BY_NAME(Head(providers))
       IN (IF pc # None THEN <<pc[1].primaryModel>> \o pc[1].fallbackModels ELSE <<>>)
          \o modelsOf(Tail(providers))

\* variant: the active provider is not left out of the recommendation
recommendedForKeepActive(availableProviders, activePrimaryProvider) ==
  toUniqueStrings(modelsOf(availableProviders))

recommendedFor(availableProviders, activePrimaryProvider) ==
  LET other(p) == p # activePrimaryProvider
      foreign(m) == providerFromModel(Some(m)) # activePrimaryProvider
  IN toUniqueStrings(SelectSeq(modelsOf(SelectSeq(availableProviders, other)), foreign))

\* variant: entries of providers without a credential are kept
filteredOfKeepStale(existing, availableProviders, primary) ==
  LET keep(m) == /\ providerFromModel(Some(m)) # <<>>
                 /\ StrictNe(Some(m), primary)
  IN toUniqueStrings(SelectSeq(existing, keep))

filteredOf(existing, availableProviders, primary) ==
  LET keep(m) == /\ providerFromModel(Some(m)) # <<>>
                 /\ providerFromModel(Some(m)) \in Range(availableProviders)
                 /\ StrictNe(Some(m), primary)
  IN toUniqueStrings(SelectSeq(existing, keep))

missingOf(recommended, filtered) ==
  LET fbProviders == {providerFromModel(Some(filtered[i])) : i \in 1..Len(filtered)} \ {<<>>}
      absent(m) == providerFromModel(Some(m)) \notin fbProviders
  IN SelectSeq(recommended, absent)

\* variant: the recommended models are put in front
mergedOfPrepend(filtered, missing) == toUniqueStrings(missing \o filtered)

mergedOf(filtered, missing) == toUniqueStrings(filtered \o missing)

\* variant: model.fallbacks is assigned on every pass
fallbacksDifferAlways(existing, merged) == TRUE

\* JSON.stringify(existing) !== JSON.stringify(merged)
fallbacksDiffer(existing, merged) == existing # merged

\* lines 137-178, the body of the if, on agents.defaults (an object by now)
selectModel(defaults, availableProviders) ==
  LET model == ensureObject(defaults.model, EmptyModel)
      currentPrimary == trim(model.val.primary)
      currentProvider == providerFromModel(Some(JStr(currentPrimary)))
      preferred == PROVIDERS_BY_NAME(availableProviders[1])
      primary ==
        IF /\ resetsPrimary(currentPrimary, currentProvider, availableProviders)
           /\ preferred # None
           /\ StrictNe(model.val.primary, Some(preferred[1].primaryModel))
        THEN Some(preferred[1].primaryModel)
        ELSE model.val.primary
      activePrimaryProvider == providerFromModel(primary)
      recommended == recommendedFor(availableProviders, activePrimaryProvider)
      existing == IF model.val.fallbacks.kind = "array"
                  THEN model.val.fallbacks.items ELSE <<>>
      filtered == filteredOf(existing, availableProviders, primary)
      missing == missingOf(recommended, filtered)
      merged == mergedOf(filtered, missing)
      fallbacks == IF fallbacksDiffer(existing, merged)
                   THEN Array(merged) ELSE model.val.fallbacks
  IN [defaults EXCEPT !.model =
        [model EXCEPT !.val.primary = primary, !.val.fallbacks = fallbacks]]

\* variant: the model object is ensured before the availability test
ModelSelectionRuleHoisted(defaults, availableProviders) ==
  IF Len(availableProviders) > 0
  THEN selectModel(defaults, availableProviders)
  ELSE [defaults EXCEPT !.model = ensureObject(defaults.model, EmptyModel)]

\* the block of lines 135-179
ModelSelectionRule(defaults, availableProviders) ==
  IF Len(availableProviders) > 0
  THEN selectModel(defaults, availableProviders)
  ELSE defaults

\* ----------------------------------------------- agent defaults from env
AgentDefaultsRule(defaults, e) ==
  LET thinkingDefault == trimEnv(e, "OPENCLAW_THINKING_DEFAULT")
      d1 == IF thinkingDefault # <<>>
               /\ StrictNe(defaults.thinkingDefault, Some(JStr(thinkingDefault)))
            THEN [defaults EXCEPT !.thinkingDefault = Some(JStr(thinkingDefault))]
            ELSE defaults
      maxConcurrent == trimEnv(e, "OPENCLAW_MAX_CONCURRENT")
      d2 == IF maxConcurrent # <<>>
               /\ StrictNe(d1.maxConcurrent, Some(Number(maxConcurrent)))
            THEN [d1 EXCEPT !.maxConcurrent = Some(Number(maxConcurrent))]
            ELSE d1
      pruningMode == trimEnv(e, "OPENCLAW_CONTEXT_PRUNING_MODE")
      ttl == trimEnv(e, "OPENCLAW_CONTEXT_PRUNING_TTL")
      d3 == IF pruningMode # <<>>
            THEN LET pruning == ensureObject(d2.contextPruning, EmptyPruning)
                     p1 == IF StrictNe(pruning.val.mode, Some(JStr(pruningMode)))
                           THEN [pruning EXCEPT !.val.mode = Some(JStr(pruningMode))]
                           ELSE pruning
                     p2 == IF ttl # <<>> /\ StrictNe(p1.val.ttl, Some(JStr(ttl)))
                           THEN [p1 EXCEPT !.val.ttl = Some(JStr(ttl))]
                           ELSE p1
                 IN [d2 EXCEPT !.contextPruning = p2]
            ELSE d2
      compactionMode == trimEnv(e, "OPENCLAW_COMPACTION_MODE")
      d4 == IF compactionMode # <<>>
            THEN LET compaction == ensureObject(d3.compaction, EmptyCompaction)
                 IN [d3 EXCEPT !.compaction =
                       IF StrictNe(compaction.val.mode, Some(JStr(compactionMode)))
                       THEN [compaction EXCEPT !.val.mode = Some(JStr(compactionMode))]
                       ELSE compaction]
            ELSE d3
      heartbeatEvery == trimEnv(e, "OPENCLAW_HEARTBEAT_EVERY")
      d5 == IF heartbeatEvery # <<>>
            THEN LET heartbeat == ensureObject(d4.heartbeat, EmptyHeartbeat)
                 IN [d4 EXCEPT !.heartbeat =
                       IF StrictNe(heartbeat.val.every, Some(JStr(heartbeatEvery)))
                       THEN [heartbeat EXCEPT !.val.every = Some(JStr(heartbeatEvery))]
                       ELSE heartbeat]
            ELSE d4
  IN d5

\* -------------------------------------------------------------- gateway
GatewayRule(c, e) ==
  LET gatewayToken == trimEnv(e, "OPENCLAW_GATEWAY_TOKEN")
  IN IF gatewayToken # <<>>
     THEN LET gateway == ensureObject(c.gateway, EmptyGateway)
              gwAuth == ensureObject(gateway.val.auth, EmptyGwAuth)
              gwAuth2 ==
                IF \/ StrictNe(gwAuth.val.mode, Some(JStr(<<"token">>)))
                   \/ StrictNe(gwAuth.val.token, Some(JStr(gatewayToken)))
                THEN [gwAuth EXCEPT !.val.mode = Some(JStr(<<"token">>)),
                                    !.val.token = Some(JStr(gatewayToken))]
                ELSE gwAuth
          IN [c EXCEPT !.gateway = [gateway EXCEPT !.val.auth = gwAuth2]]
     ELSE c

\* ------------------------------------------------------------- channels
\* the body shared by the Telegram and the Discord block: enable
\* channels.<name> and plugins.entries.<name>
enableChannel(c, name) ==
  LET channels == ensureObject(c.channels, EmptyChannels)
      ch == ensureObject(channels.val[name], EmptyEnabled)
      ch2 == IF StrictNe(ch.val.enabled, Some(JTrue))
             THEN [ch EXCEPT !.val.enabled = Some(JTrue)] ELSE ch
      plugins == ensureObject(c.plugins, EmptyPlugins)
      entries == ensureObject(plugins.val.entries, EmptyChannels)
      pl == ensureObject(entries.val[name], EmptyEnabled)
      pl2 == IF StrictNe(pl.val.enabled, Some(JTrue))
             THEN [pl EXCEPT !.val.enabled = Some(JTrue)] ELSE pl
  IN [c EXCEPT !.channels = [channels EXCEPT !.val[name] = ch2],
               !.plugins = [plugins EXCEPT !.val.entries =
                              [entries EXCEPT !.val[name] = pl2]]]

TelegramRule(c, e) ==
  IF trimEnv(e, "TELEGRAM_BOT_TOKEN") # <<>> THEN enableChannel(c, "telegram") ELSE c

\* variant: the guild id is not required
DiscordRuleTokenOnly(c, e) ==
  IF trimEnv(e, "DISCORD_BOT_TOKEN") # <<>> THEN enableChannel(c, "discord") ELSE c

DiscordRule(c, e) ==
  LET discordToken == trimEnv(e, "DISCORD_BOT_TOKEN")
      discordGuildId == trimEnv(e, "DISCORD_GUILD_ID")
  IN IF discordToken # <<>> /\ discordGuildId # <<>>
     THEN enableChannel(c, "discord") ELSE c

\* ------------------------------------------------- inputs of the model
SeqsUpTo(S, n) == UNION {[1..k -> S] : k \in 0..n}

Custom == Some(JStr(<<"custom">>))
Key == <<"sk">>
SpacedGemini == JStr(<<" ">> \o Gemini.text)
LocalModel == JStr(<<"local-model">>)

WithDefaults(d) == [EmptyDoc EXCEPT !.agents = Object([defaults |-> Object(d)])]

\* documents and environments that exercise model selection
Primaries == {None, Some(Sonnet), Some(Gpt52), Some(Gemini), Some(SpacedGemini), Some(LocalModel)}
FallbackItems == {Sonnet, Haiku, Codex53, Gpt4o, Gemini, SpacedGemini, JNum(<<"7">>)}
FallbackArrays ==
  {NoArray, [kind |-> "other", items |-> <<>>]}
    \cup {Array(items) : items \in SeqsUpTo(FallbackItems, MaxFallbacks)}
ModelSlots ==
  {Absent(EmptyModel), Other(EmptyModel)}
    \cup {Object([primary |-> p, fallbacks |-> f, extra |-> None]) :
            p \in Primaries, f \in FallbackArrays}
ModelDocs == {WithDefaults([EmptyDefaults EXCEPT !.model = m]) : m \in ModelSlots}
ModelEnvs ==
  {[NoEnv EXCEPT !["ANTHROPIC_API_KEY"] = a, !["OPENAI_API_KEY"] = o,
                 !["GOOGLE_API_KEY"] = g] :
     a \in {<<>>, Key}, o \in {<<>>, Key}, g \in {<<>>, <<" ">>, Key}}

\* documents and environments that exercise auth profiles, gateway auth
\* and keys the pass does not know
ProfileEntries ==
  {None,
   Some([mode |-> Some(JStr(<<"token">>)), provider |-> Some(JStr(<<"anthropic">>)), extra |-> None]),
   Some([mode |-> Some(JStr(<<"token">>)), provider |-> Some(JStr(<<"anthropic">>)), extra |-> Custom]),
   Some([mode |-> Some(JStr(<<"oauth">>)), provider |-> Some(JStr(<<"anthropic">>)), extra |-> Custom]),
   Some([mode |-> Some(JStr(<<"token">>)), provider |-> None, extra |-> None])}
AuthSlots ==
  {Absent(EmptyAuth), Other(EmptyAuth), Object([profiles |-> Absent(EmptyProfiles)])}
    \cup {Object([profiles |-> Object([EmptyProfiles EXCEPT !["anthropic:default"] = p])]) :
            p \in ProfileEntries}
GatewaySlots ==
  {Absent(EmptyGateway), Object([auth |-> Other(EmptyGwAuth)]),
   Object([auth |-> Object([mode |-> Some(JStr(<<"token">>)),
                            token |-> Some(JStr(<<"t1">>)), extra |-> Custom])]),
   Object([auth |-> Object([mode |-> Some(JStr(<<"password">>)),
                            token |-> None, extra |-> Custom])])}
AuthDocs ==
  {[WithDefaults([EmptyDefaults EXCEPT !.extra = x, !.model = m])
      EXCEPT !.auth = a, !.gateway = g, !.extra = x] :
     a \in AuthSlots, g \in GatewaySlots, x \in {None, Custom},
     m \in {Absent(EmptyModel),
            Object([primary |-> Some(Sonnet), fallbacks |-> Array(<<Gemini>>), extra |-> Custom])}}
AuthEnvs ==
  {[NoEnv EXCEPT !["ANTHROPIC_API_KEY"] = a, !["GOOGLE_API_KEY"] = g,
                 !["OPENCLAW_GATEWAY_TOKEN"] = t] :
     a \in {<<>>, Key}, g \in {<<>>, Key}, t \in {<<>>, <<"t1">>, <<" ", "t2">>}}

\* documents and environments that exercise the scalar tunables
TunableDocs ==
  {[WithDefaults([EmptyDefaults EXCEPT
      !.workspace = w, !.thinkingDefault = th, !.maxConcurrent = mc,
      !.contextPruning = pr, !.compaction = co, !.heartbeat = hb])
      EXCEPT !.auth = Object([profiles |-> Object(EmptyProfiles)])] :
     w \in {None, Some(JStr(<<"/data", "/workspace">>))},
     th \in {None, Some(JStr(<<"high">>))},
     mc \in {None, Some(JNum(<<"4">>)), Some(JNull)},
     pr \in {Absent(EmptyPruning),
             Object([mode |-> Some(JStr(<<"adaptive">>)), ttl |-> Some(JStr(<<"1h">>))]),
             Object([mode |-> Some(JStr(<<"off">>)), ttl |-> None])},
     co \in {Absent(EmptyCompaction), Object([mode |-> Some(JStr(<<"safeguard">>))])},
     hb \in {Absent(EmptyHeartbeat), Object([every |-> Some(JStr(<<"30m">>))])}}
TunableEnvs ==
  {[NoEnv EXCEPT
      !["OPENCLAW_THINKING_DEFAULT"] = th, !["OPENCLAW_MAX_CONCURRENT"] = mc,
      !["OPENCLAW_CONTEXT_PRUNING_MODE"] = pm, !["OPENCLAW_CONTEXT_PRUNING_TTL"] = ttl,
      !["OPENCLAW_COMPACTION_MODE"] = rest, !["OPENCLAW_HEARTBEAT_EVERY"] = rest] :
     th \in {<<>>, <<"high">>},
     mc \in {<<>>, <<"4">>, <<"0", "4">>, <<"abc">>},
     pm \in {<<>>, <<"adaptive">>}, ttl \in {<<>>, <<"1h">>},
     rest \in {<<>>, <<"30m">>}}

\* documents and environments that exercise the channel flags
EnabledSlots ==
  {Absent(EmptyEnabled), Other(EmptyEnabled),
   Object([enabled |-> Some(JTrue)]), Object([enabled |-> Some(JFalse)])}
ChannelSlots ==
  {Absent(EmptyChannels)}
    \cup {Object([telegram |-> t, discord |-> d]) : t \in EnabledSlots, d \in EnabledSlots}
ChannelDocs ==
  {[EmptyDoc EXCEPT !.channels = c, !.plugins = p] :
     c \in ChannelSlots,
     p \in {Absent(EmptyPlugins), Object([entries |-> Absent(EmptyChannels)]),
            Object([entries |-> Object([telegram |-> Object([enabled |-> Some(JTrue)]),
                                        discord |-> Object([enabled |-> Some(JTrue)])])])}}
ChannelEnvs ==
  {[NoEnv EXCEPT !["TELEGRAM_BOT_TOKEN"] = t, !["DISCORD_BOT_TOKEN"] = d,
                 !["DISCORD_GUILD_ID"] = g, !["OPENCLAW_STATE_DIR"] = sd,
                 !["OPENCLAW_WORKSPACE_DIR"] = w] :
     t \in {<<>>, <<"tg">>}, d \in {<<>>, <<" ">>, <<"dc">>}, g \in {<<>>, <<"g1">>},
     sd \in {<<>>, <<"/state">>}, w \in {<<>>, <<"/w">>}}

AllEnvs == ModelEnvs \cup AuthEnvs \cup TunableEnvs \cup ChannelEnvs

\* values of RESET_CONFIG: unset, the two that ask for a reset, another
ResetValues == {<<>>, <<"true">>, <<"1">>, <<"0">>}

\* files that hold no usable object: missing, not JSON, a top-level array, a
\* top-level scalar
OddFiles ==
  {NoFile, Malformed, FileOf([EmptyDoc EXCEPT !.root = "array"]),
   FileOf([EmptyDoc EXCEPT !.root = "scalar"])}

\* --------------------------------------------------------- the process
VARIABLES
  env,                 \* process.env, fixed for the life of the container
  file,                \* the file at configPath
  pc,                  \* the section of the script that runs next
  config,              \* const config (line 103)
  original,            \* const original (line 104)
  availableProviders,  \* const availableProviders (line 118)
  outcome,             \* the closing log line: "updated", "unchanged", "warning"
  exitStatus,          \* process exit status, None while the script runs
  passNo,              \* how many times the script has been started
  writes,              \* writeFileSync calls on configPath that succeeded, this run
  startFile,           \* the file as this run found it
  ioFault,             \* some file-system call has failed, in this run or before
  RESET_CONFIG,        \* the variable of that name in the container's environment
  ep,                  \* the part of the entrypoint that runs next
  invoked,             \* how many times this start has run node on the script
  nodeStatus           \* the exit status the entrypoint got from node, None before

vars == <<env, file, pc, config, original, availableProviders, outcome,
          exitStatus, passNo, writes, startFile, ioFault,
          RESET_CONFIG, ep, invoked, nodeStatus>>

\* the document this run started from
PrePass == readConfig(startFile)

Init ==
  /\ \/ env \in ModelEnvs /\ \E d \in ModelDocs : file = FileOf(d)
     \/ env \in AuthEnvs /\ \E d \in AuthDocs : file = FileOf(d)
     \/ env \in TunableEnvs /\ \E d \in TunableDocs : file = FileOf(d)
     \/ env \in ChannelEnvs /\ \E d \in ChannelDocs : file = FileOf(d)
     \/ env \in AllEnvs /\ file \in OddFiles \cup {FileOf(EmptyDoc)}
  /\ RESET_CONFIG \in
       (IF env \in AuthEnvs /\ file \in OddFiles \cup {FileOf(EmptyDoc)}
        THEN ResetValues ELSE {<<>>})
  /\ ep = "setup"
  /\ invoked = 0
  /\ nodeStatus = None
  /\ pc = "idle"
  /\ config = EmptyDoc
  /\ original = EmptyDoc
  /\ availableProviders = <<>>
  /\ outcome = "running"
  /\ exitStatus = None
  /\ passNo = 0
  /\ writes = 0
  /\ startFile = file
  /\ ioFault = FALSE

\* variant: the try starts after the default file has been created
InTryAfterSetup(section) == section # "ensureFile"

\* every statement of the script sits inside the try of lines 93-286
InTry(section) == TRUE

\* where control goes when a section throws
Throw(section) == IF InTry(section) THEN "catch" ELSE "uncaught"

\* lines 94-101: create "{}\n" when there is no file
EnsureFile ==
  /\ pc = "start"
  /\ IF ~existsSync(file)
     THEN file' = FileOf(EmptyDoc) /\ writes' = writes + 1
     ELSE UNCHANGED <<file, writes>>
  /\ pc' = "load"
  /\ UNCHANGED <<RESET_CONFIG, ep, invoked, nodeStatus>>
  /\ UNCHANGED <<env, config, original, availableProviders, outcome,
                 exitStatus, passNo, startFile, ioFault>>

\* lines 99-100: mkdirSync or writeFileSync throws
EnsureFileFails ==
  /\ pc = "start"
  /\ ~existsSync(file)
  /\ pc' = Throw("ensureFile")
  /\ ioFault' = TRUE
  /\ UNCHANGED <<RESET_CONFIG, ep, invoked, nodeStatus>>
  /\ UNCHANGED <<env, file, config, original, availableProviders, outcome,
                 exitStatus, passNo, writes, startFile>>

\* lines 103-104
Load ==
  /\ pc = "load"
  /\ config' = readConfig(file)
  /\ original' = JSONstringify(readConfig(file))
  /\ pc' = "workspace"
  /\ UNCHANGED <<RESET_CONFIG, ep, invoked, nodeStatus>>
  /\ UNCHANGED <<env, file, availableProviders, outcome, exitStatus, passNo,
                 writes, startFile, ioFault>>

\* lines 106-113; ensureObject(config, "agents") throws a TypeError when
\* config is null or a primitive
Workspace ==
  /\ pc = "workspace"
  /\ IF config.root = "scalar"
     THEN pc' = Throw("workspace") /\ UNCHANGED config
     ELSE pc' = "auth" /\ config' = WorkspaceRule(config, env)
  /\ UNCHANGED <<RESET_CONFIG, ep, invoked, nodeStatus>>
  /\ UNCHANGED <<env, file, original, availableProviders, outcome, exitStatus,
                 passNo, writes, startFile, ioFault>>

\* lines 115-133
AuthProfiles ==
  /\ pc = "auth"
  /\ config' = AuthProfilesRule(config, env)
  /\ availableProviders' = AvailableProviders(env)
  /\ pc' = "model"
  /\ UNCHANGED <<RESET_CONFIG, ep, invoked, nodeStatus>>
  /\ UNCHANGED <<env, file, original, outcome, exitStatus, passNo, writes,
                 startFile, ioFault>>

\* lines 135-179
ModelSelection ==
  /\ pc = "model"
  /\ config' = [config EXCEPT !.agents.val.defaults.val =
                  ModelSelectionRule(@, availableProviders)]
  /\ pc' = "defaults"
  /\ UNCHANGED <<RESET_CONFIG, ep, invoked, nodeStatus>>
  /\ UNCHANGED <<env, file, original, availableProviders, outcome, exitStatus,
                 passNo, writes, startFile, ioFault>>

\* lines 181-227
AgentDefaults ==
  /\ pc = "defaults"
  /\ config' = [config EXCEPT !.agents.val.defaults.val = AgentDefaultsRule(@, env)]
  /\ pc' = "gateway"
  /\ UNCHANGED <<RESET_CONFIG, ep, invoked, nodeStatus>>
  /\ UNCHANGED <<env, file, original, availableProviders, outcome, exitStatus,
                 passNo, writes, startFile, ioFault>>

\* lines 229-239
Gateway ==
  /\ pc = "gateway"
  /\ config' = GatewayRule(config, env)
  /\ pc' = "telegram"
  /\ UNCHANGED <<RESET_CONFIG, ep, invoked, nodeStatus>>
  /\ UNCHANGED <<env, file, original, availableProviders, outcome, exitStatus,
                 passNo, writes, startFile, ioFault>>

\* lines 241-257
Telegram ==
  /\ pc = "telegram"
  /\ config' = TelegramRule(config, env)
  /\ pc' = "discord"
  /\ UNCHANGED <<RESET_CONFIG, ep, invoked, nodeStatus>>
  /\ UNCHANGED <<env, file, original, availableProviders, outcome, exitStatus,
                 passNo, writes, startFile, ioFault>>

\* lines 259-276
Discord ==
  /\ pc = "discord"
  /\ config' = DiscordRule(config, env)
  /\ pc' = "write"
  /\ UNCHANGED <<RESET_CONFIG, ep, invoked, nodeStatus>>
  /\ UNCHANGED <<env, file, original, availableProviders, outcome, exitStatus,
                 passNo, writes, startFile, ioFault>>

\* variant: no change detection, the file is always rewritten
differsAlways(updated, orig) == TRUE

\* updated !== original
differs(updated, orig) == updated # orig

\* lines 278-285
Write ==
  /\ pc = "write"
  /\ IF differs(JSONstringify(config), original)
     THEN /\ file' = FileOf(JSONstringify(config))
          /\ writes' = writes + 1
          /\ outcome' = "updated"
     ELSE /\ outcome' = "unchanged"
          /\ UNCHANGED <<file, writes>>
  /\ pc' = "end"
  /\ UNCHANGED <<RESET_CONFIG, ep, invoked, nodeStatus>>
  /\ UNCHANGED <<env, config, original, availableProviders, exitStatus,
                 passNo, startFile, ioFault>>

\* line 281: writeFileSync throws
WriteFails ==
  /\ pc = "write"
  /\ differs(JSONstringify(config), original)
  /\ pc' = Throw("write")
  /\ ioFault' = TRUE
  /\ UNCHANGED <<RESET_CONFIG, ep, invoked, nodeStatus>>
  /\ UNCHANGED <<env, file, config, original, availableProviders, outcome,
                 exitStatus, passNo, writes, startFile>>

\* lines 286-289
Catch ==
  /\ pc = "catch"
  /\ outcome' = "warning"
  /\ pc' = "end"
  /\ UNCHANGED <<RESET_CONFIG, ep, invoked, nodeStatus>>
  /\ UNCHANGED <<env, file, config, original, availableProviders, exitStatus,
                 passNo, writes, startFile, ioFault>>

\* the script runs off its end (status 0) or dies of an uncaught error (1)
Exit ==
  /\ pc \in {"end", "uncaught"}
  /\ exitStatus' = Some(IF pc = "uncaught" THEN 1 ELSE 0)
  /\ pc' = "exited"
  /\ UNCHANGED <<RESET_CONFIG, ep, invoked, nodeStatus>>
  /\ UNCHANGED <<env, file, config, original, availableProviders, outcome,
                 passNo, writes, startFile, ioFault>>

\* ------------------------------------------------ the container entrypoint
\* the image holds /app/scripts/sync-runtime-config.mjs: the scripts
\* directory is copied into it
scriptInstalled == TRUE

\* [ "${RESET_CONFIG}" = "true" ] || [ "${RESET_CONFIG}" = "1" ]
resetRequested(v) == v = <<"true">> \/ v = <<"1">>

\* variant: the status of node is the status of the command
OrTrueMissing(status) == status

\* the status of "node ... || true"
OrTrue(status) == 0

\* set -e: the entrypoint goes on after a command of status 0 and ends
\* otherwise
AfterCommand(status, next) == IF status = 0 THEN next ELSE "died"

\* lines 5-104: home directories, links, wrapper, config reset, tailscale
EntrySetup ==
  /\ ep = "setup"
  /\ file' = IF resetRequested(RESET_CONFIG) /\ file.exists THEN NoFile ELSE file
  /\ ep' = "sync"
  /\ UNCHANGED <<env, pc, config, original, availableProviders, outcome,
                 exitStatus, passNo, writes, startFile, ioFault,
                 RESET_CONFIG, invoked, nodeStatus>>

\* line 5: a command of the setup fails (mkdir, ln, tailscale up) and set -e
\* ends the entrypoint
EntrySetupFails ==
  /\ ep = "setup"
  /\ ep' = "died"
  /\ UNCHANGED <<env, file, pc, config, original, availableProviders, outcome,
                 exitStatus, passNo, writes, startFile, ioFault,
                 RESET_CONFIG, invoked, nodeStatus>>

\* lines 106-109: node is started on the script, when the script is there
EntrySync ==
  /\ ep = "sync"
  /\ IF scriptInstalled
     THEN /\ pc' = "start"
          /\ startFile' = file
          /\ invoked' = invoked + 1
          /\ passNo' = passNo + 1
          /\ ep' = "node"
     ELSE /\ ep' = "post"
          /\ UNCHANGED <<pc, startFile, invoked, passNo>>
  /\ UNCHANGED <<env, file, config, original, availableProviders, outcome,
                 exitStatus, writes, ioFault, RESET_CONFIG, nodeStatus>>

\* line 109: node ends with a status other than 0 before it runs a statement
\* of the script (it cannot start, or cannot load the module)
EntryNodeFails ==
  /\ ep = "sync"
  /\ scriptInstalled
  /\ invoked' = invoked + 1
  /\ nodeStatus' = Some(1)
  /\ ep' = AfterCommand(OrTrue(1), "post")
  /\ UNCHANGED <<env, file, pc, config, original, availableProviders, outcome,
                 exitStatus, passNo, writes, startFile, ioFault, RESET_CONFIG>>

\* lines 109-110: the script has ended and the entrypoint goes on
EntryReturn ==
  /\ ep = "node"
  /\ pc = "exited"
  /\ nodeStatus' = exitStatus
  /\ ep' = AfterCommand(OrTrue(exitStatus[1]), "post")
  /\ UNCHANGED <<env, file, pc, config, original, availableProviders, outcome,
                 exitStatus, passNo, writes, startFile, ioFault,
                 RESET_CONFIG, invoked>>

\* lines 112-127: postgres (|| true), the legacy token name (exported to the
\* main command only), exec "$@"
EntryExec ==
  /\ ep = "post"
  /\ ep' = "main"
  /\ UNCHANGED <<env, file, pc, config, original, availableProviders, outcome,
                 exitStatus, passNo, writes, startFile, ioFault,
                 RESET_CONFIG, invoked, nodeStatus>>

\* the container starts again, with the same environment and the volume as
\* the last start left it
Restart ==
  /\ ep \in {"main", "died"}
  /\ passNo < MaxPasses
  /\ ep' = "setup"
  /\ invoked' = 0
  /\ nodeStatus' = None
  /\ pc' = "idle"
  /\ config' = EmptyDoc
  /\ original' = EmptyDoc
  /\ availableProviders' = <<>>
  /\ outcome' = "running"
  /\ exitStatus' = None
  /\ writes' = 0
  /\ startFile' = file
  /\ UNCHANGED <<env, file, ioFault, RESET_CONFIG, passNo>>

Next ==
  \/ EnsureFile \/ EnsureFileFails \/ Load \/ Workspace \/ AuthProfiles
  \/ ModelSelection \/ AgentDefaults \/ Gateway \/ Telegram \/ Discord
  \/ Write \/ WriteFails \/ Catch \/ Exit
  \/ EntrySetup \/ EntrySetupFails \/ EntrySync \/ EntryNodeFails
  \/ EntryReturn \/ EntryExec \/ Restart

Spec == Init /\ [][Next]_vars

\* the runs checked for termination: every kind of file, with and without
\* usable content, under the environments of AuthEnvs
FaultInit ==
  /\ Init
  /\ env \in AuthEnvs
  /\ file \in OddFiles \cup {FileOf(d) : d \in ChannelDocs}

\* the entrypoint and the script are sequential programs: whichever has a
\* next step takes it
FairSpec == FaultInit /\ [][Next]_vars /\ WF_vars(Next)

\* ------------------------------------------------------------ properties
\* the pass ran to its end without throwing
Completed == pc \in {"end", "exited"} /\ outcome \in {"updated", "unchanged"}

\* the auth section has run: availableProviders is the computed list
AfterAuth ==
  pc \in {"model", "defaults", "gateway", "telegram", "discord", "write"} \/ Completed

\* the model selection section has run
AfterModel ==
  pc \in {"defaults", "gateway", "telegram", "discord", "write"} \/ Completed

ModelOf(doc) ==
  IF doc.agents.kind = "object" /\ doc.agents.val.defaults.kind = "object"
  THEN doc.agents.val.defaults.val.model ELSE Absent(EmptyModel)

PrimaryOf(doc) == IF ModelOf(doc).kind = "object" THEN ModelOf(doc).val.primary ELSE None

FallbacksOf(doc) ==
  IF ModelOf(doc).kind = "object" /\ ModelOf(doc).val.fallbacks.kind = "array"
  THEN ModelOf(doc).val.fallbacks.items ELSE <<>>

IsSet(name) == trimEnv(env, name) # <<>>

Anthropic == <<"anthropic">>
OpenAICodex == <<"openai-codex">>
OpenAI == <<"openai">>
Google == <<"google">>

\* C1: idempotence.  A pass that runs on the file a previous pass left, with
\* the same environment, writes nothing and leaves the file as it found it,
\* and the document it ends with serializes to that file.  (The previous
\* pass is one whose file-system calls all succeeded, and the entrypoint
\* was not asked to remove the file in between.)
C1_Idempotent ==
  (passNo >= 2 /\ ~ioFault /\ ~resetRequested(RESET_CONFIG)) =>
    /\ writes = 0
    /\ file = startFile
    /\ Completed => JSONstringify(config) = startFile.json

C1_Witness ==
  /\ passNo = 2 /\ pc = "exited" /\ outcome = "unchanged" /\ ~ioFault
  /\ availableProviders = <<Anthropic, OpenAICodex>>
  /\ FallbacksOf(config) = <<Codex53, Codex52>>

\* the file as the load step read it: the start file, or "{}" just created
LoadedFile == IF startFile.exists THEN startFile ELSE FileOf(EmptyDoc)

\* C2: when a pass reaches its end, the closing write has happened iff the
\* serialized document differs from the snapshot taken after load; when they
\* are equal the file is what the load step read.
C2_WriteIffChanged ==
  Completed =>
    /\ original = JSONstringify(readConfig(LoadedFile))
    /\ IF JSONstringify(config) # original
       THEN /\ outcome = "updated"
            /\ file = FileOf(JSONstringify(config))
            /\ writes = (IF startFile.exists THEN 1 ELSE 2)
       ELSE /\ outcome = "unchanged"
            /\ file = LoadedFile
            /\ writes = (IF startFile.exists THEN 0 ELSE 1)

C2_Witness ==
  /\ Completed /\ outcome = "unchanged" /\ passNo = 1 /\ config.root = "object"
  /\ IsSet("OPENCLAW_MAX_CONCURRENT")
  /\ config.agents.val.defaults.val.maxConcurrent = Some(JNaN)

\* C3 as stated: no run writes the config file more than once.
C3_AtMostOneWrite == writes <= 1

\* C3 amended: a run writes the file at most once when the file exists at the
\* start, and at most twice (the "{}" default, then the reconciled document)
\* when it does not.
C3_WritesBounded == writes <= (IF startFile.exists THEN 1 ELSE 2)

C3_Witness == ~startFile.exists /\ writes = 2 /\ pc = "exited"

\* C4: every run ends, with exit status 0, whatever failed on the way; no
\* error escapes the top-level try.
C4_NeverFails ==
  /\ [](pc # "uncaught")
  /\ [](exitStatus \in {None, Some(0)})
  /\ [](pc = "start" => <>(pc = "exited" /\ exitStatus = Some(0)))

C4_Witness ==
  /\ pc = "exited" /\ exitStatus = Some(0) /\ outcome = "warning"
  /\ passNo = 1 /\ startFile.exists /\ ioFault

\* C5: a primary whose provider is in availableProviders is left as it was.
C5_PrimaryPreserved ==
  (AfterModel /\ providerFromModel(PrimaryOf(PrePass)) \in Range(availableProviders))
    => PrimaryOf(config) = PrimaryOf(PrePass)

C5_Witness ==
  /\ pc = "exited" /\ Completed
  /\ PrimaryOf(PrePass) = Some(Gemini)
  /\ availableProviders = <<Anthropic, Google>>
  /\ PrimaryOf(config) = Some(Gemini)

\* C6 as stated, for the passes that run model selection: after a pass with
\* at least one provider available, no fallback entry has the provider
\* prefix of the primary.
C6_FallbackExclusion ==
  (Completed /\ availableProviders # <<>>) =>
    \A i \in 1..Len(FallbacksOf(config)) :
      \/ providerFromModel(Some(FallbacksOf(config)[i])) = <<>>
      \/ providerFromModel(Some(FallbacksOf(config)[i])) # providerFromModel(PrimaryOf(config))

\* the keys the pass does not own, as the file holds them
ExtrasOf(doc) ==
  [root |-> doc.extra,
   defaults |-> IF doc.agents.kind = "object" /\ doc.agents.val.defaults.kind = "object"
                THEN doc.agents.val.defaults.val.extra ELSE None,
   model |-> IF ModelOf(doc).kind = "object" THEN ModelOf(doc).val.extra ELSE None,
   profiles |-> [k \in ProfileKeys |->
                   IF /\ doc.auth.kind = "object"
                      /\ doc.auth.val.profiles.kind = "object"
                      /\ doc.auth.val.profiles.val[k] # None
                   THEN doc.auth.val.profiles.val[k][1].extra ELSE None],
   gwAuth |-> IF doc.gateway.kind = "object" /\ doc.gateway.val.auth.kind = "object"
              THEN doc.gateway.val.auth.val.extra ELSE None]

\* C7 as stated: every key the pass does not own, the extra keys inside an
\* auth.profiles entry and inside gateway.auth included, has after the pass
\* the value it had before.
C7_Additivity ==
  Completed => ExtrasOf(readConfig(file)) = ExtrasOf(PrePass)

\* C8 as stated: with OPENAI_API_KEY set, availableProviders holds both
\* openai-codex and openai.
C8_AliasBoth ==
  (AfterAuth /\ IsSet("OPENAI_API_KEY")) =>
    {OpenAICodex, OpenAI} \subseteq Range(availableProviders)

\* C8 amended: of the providers that share a credential variable only the
\* first in priority order is available: a provider is in availableProviders
\* iff its variable is non-empty and no earlier provider names the same
\* variable (so OPENAI_API_KEY yields openai-codex and not openai).
C8_AliasFirstOnly ==
  AfterAuth =>
    /\ \A i \in 1..Len(PROVIDERS) :
         PROVIDERS[i].provider \in Range(availableProviders)
           <=> /\ IsSet(PROVIDERS[i].envVar)
               /\ \A j \in 1..(i - 1) : PROVIDERS[j].envVar # PROVIDERS[i].envVar
    /\ IsSet("OPENAI_API_KEY") =>
         OpenAICodex \in Range(availableProviders) /\ OpenAI \notin Range(availableProviders)

C8_Witness ==
  /\ pc = "model" /\ IsSet("OPENAI_API_KEY")
  /\ availableProviders = <<Anthropic, OpenAICodex>>

HasLiveCredential(m) ==
  \E i \in 1..Len(PROVIDERS) :
    PROVIDERS[i].provider = providerFromModel(Some(m)) /\ IsSet(PROVIDERS[i].envVar)

\* C9 as stated: after any pass every fallback entry names a provider whose
\* credential variable is non-empty.
C9_FallbacksLive ==
  Completed => \A i \in 1..Len(FallbacksOf(config)) : HasLiveCredential(FallbacksOf(config)[i])

\* C9 amended: after a pass in which at least one provider credential is
\* non-empty, every fallback entry names a provider of availableProviders,
\* whose credential variable is non-empty.
C9_FallbacksLiveWhenAvailable ==
  (Completed /\ availableProviders # <<>>) =>
    \A i \in 1..Len(FallbacksOf(config)) :
      /\ providerFromModel(Some(FallbacksOf(config)[i])) \in Range(availableProviders)
      /\ HasLiveCredential(FallbacksOf(config)[i])

C9_Witness ==
  /\ pc = "exited" /\ Completed
  /\ Gemini \in Range(FallbacksOf(PrePass))
  /\ ~IsSet("GOOGLE_API_KEY")
  /\ availableProviders = <<Anthropic>>
  /\ Gemini \notin Range(FallbacksOf(config))

\* C10 as stated: with primary "openai/gpt-5.2", no fallbacks yet, and the
\* OpenAI and Anthropic credentials set, the pass keeps the primary and sets
\* the fallbacks to Anthropic's two models.
C10_OpenAIPrimaryKept ==
  ( /\ Completed
    /\ PrimaryOf(PrePass) = Some(Gpt52)
    /\ FallbacksOf(PrePass) = <<>>
    /\ IsSet("OPENAI_API_KEY") /\ IsSet("ANTHROPIC_API_KEY")
    /\ ~IsSet("GOOGLE_API_KEY") )
    => /\ PrimaryOf(config) = Some(Gpt52)
       /\ ModelOf(config).val.fallbacks = Array(<<Sonnet, Haiku>>)

OnlyAnthropic ==
  IsSet("ANTHROPIC_API_KEY") /\ ~IsSet("OPENAI_API_KEY") /\ ~IsSet("GOOGLE_API_KEY")

ProfileOf(doc, k) ==
  IF doc.auth.kind = "object" /\ doc.auth.val.profiles.kind = "object"
  THEN doc.auth.val.profiles.val[k] ELSE None

AnthropicProfile ==
  Some([mode |-> Some(JStr(<<"token">>)), provider |-> Some(JStr(Anthropic)),
        extra |-> None])

\* C11 as stated: from an empty document with only the Anthropic credential
\* set, a pass yields primary "anthropic/claude-sonnet-4-5", a fallbacks
\* field that is present and is the empty list, and the anthropic:default
\* profile.
C11_EmptyDocFallbacksEmptyList ==
  (Completed /\ PrePass = EmptyDoc /\ OnlyAnthropic) =>
    /\ PrimaryOf(config) = Some(Sonnet)
    /\ ModelOf(config).val.fallbacks = Array(<<>>)
    /\ ProfileOf(config, "anthropic:default") = AnthropicProfile

\* C11 amended: the same pass yields that primary and that profile, and no
\* fallbacks field at all (the merged list is empty, like the missing one,
\* so nothing is assigned).
C11_EmptyDocFallbacksAbsent ==
  (Completed /\ PrePass = EmptyDoc /\ OnlyAnthropic) =>
    /\ PrimaryOf(config) = Some(Sonnet)
    /\ ModelOf(config).kind = "object"
    /\ ModelOf(config).val.fallbacks = NoArray
    /\ ProfileOf(config, "anthropic:default") = AnthropicProfile

C11_Witness ==
  /\ pc = "exited" /\ Completed /\ outcome = "updated"
  /\ startFile = FileOf(EmptyDoc) /\ OnlyAnthropic
  /\ PrimaryOf(readConfig(file)) = Some(Sonnet)
  /\ ModelOf(readConfig(file)).val.fallbacks = NoArray

FlagOf(slot) == IF slot.kind = "object" THEN slot.val.enabled ELSE None

ChannelFlag(doc, name) ==
  IF doc.channels.kind = "object" THEN FlagOf(doc.channels.val[name]) ELSE None

PluginFlag(doc, name) ==
  IF doc.plugins.kind = "object" /\ doc.plugins.val.entries.kind = "object"
  THEN FlagOf(doc.plugins.val.entries.val[name]) ELSE None

\* C12: the two Discord flags are true after a pass with both
\* DISCORD_BOT_TOKEN and DISCORD_GUILD_ID non-empty and are what they were
\* when either is empty; the two Telegram flags are true after a pass with
\* TELEGRAM_BOT_TOKEN non-empty and are what they were otherwise.
C12_ChannelFlags ==
  Completed =>
    /\ IF IsSet("DISCORD_BOT_TOKEN") /\ IsSet("DISCORD_GUILD_ID")
       THEN /\ ChannelFlag(config, "discord") = Some(JTrue)
            /\ PluginFlag(config, "discord") = Some(JTrue)
       ELSE /\ ChannelFlag(config, "discord") = ChannelFlag(PrePass, "discord")
            /\ PluginFlag(config, "discord") = PluginFlag(PrePass, "discord")
    /\ IF IsSet("TELEGRAM_BOT_TOKEN")
       THEN /\ ChannelFlag(config, "telegram") = Some(JTrue)
            /\ PluginFlag(config, "telegram") = Some(JTrue)
       ELSE /\ ChannelFlag(config, "telegram") = ChannelFlag(PrePass, "telegram")
            /\ PluginFlag(config, "telegram") = PluginFlag(PrePass, "telegram")

C12_Witness ==
  /\ pc = "exited" /\ Completed /\ config.root = "object"
  /\ IsSet("DISCORD_BOT_TOKEN") /\ ~IsSet("DISCORD_GUILD_ID")
  /\ IsSet("TELEGRAM_BOT_TOKEN")
  /\ ChannelFlag(PrePass, "discord") = None
  /\ ChannelFlag(config, "discord") = None /\ PluginFlag(config, "discord") = None
  /\ ChannelFlag(config, "telegram") = Some(JTrue)
  /\ PluginFlag(config, "telegram") = Some(JTrue)

\* the providers whose credential is set, in priority order, each once
FirstAvailable ==
  LET live == {i \in 1..Len(PROVIDERS) : IsSet(PROVIDERS[i].envVar)}
  IN PROVIDERS[CHOOSE i \in live : \A j \in live : i <= j]

\* C14: when a provider is available and the pre-pass primary is empty or
\* its provider is not available, model.primary after the model-selection
\* step is the primaryModel of the first available provider in priority
\* order; after every pass with an available provider model.primary is
\* non-empty and its provider is available.
C14_PrimaryReset ==
  (AfterModel /\ availableProviders # <<>>) =>
    LET pre == PrimaryOf(PrePass)
    IN /\ (trim(pre) = <<>> \/ providerFromModel(pre) \notin Range(availableProviders))
            => PrimaryOf(config) = Some(FirstAvailable.primaryModel)
       /\ trim(PrimaryOf(config)) # <<>>
       /\ providerFromModel(PrimaryOf(config)) \in Range(availableProviders)

C14_Witness ==
  /\ pc = "exited" /\ Completed
  /\ PrimaryOf(PrePass) = Some(Gemini) /\ ~IsSet("GOOGLE_API_KEY")
  /\ availableProviders = <<OpenAICodex>>
  /\ PrimaryOf(readConfig(file)) = Some(Codex53)

RECURSIVE IsSubseq(_, _)
IsSubseq(a, b) ==
  IF a = <<>> THEN TRUE
  ELSE IF b = <<>> THEN FALSE
  ELSE IF Head(a) = Head(b) THEN IsSubseq(Tail(a), Tail(b))
  ELSE IsSubseq(a, Tail(b))

\* every model of the provider table, in priority order
AllModels == modelsOf([i \in 1..Len(PROVIDERS) |-> PROVIDERS[i].provider])

\* C15: after the model-selection step with an available provider, the
\* fallback list is the surviving pre-pass entries, in their pre-pass order,
\* followed by the entries the pass added, in provider priority order, and
\* holds no entry twice; every pre-pass string entry of an available
\* provider other than the primary survives (up to its own duplicates).
C15_MergeOrder ==
  (AfterModel /\ availableProviders # <<>>) =>
    LET pre == FallbacksOf(PrePass)
        fb == FallbacksOf(config)
        old(m) == m \in Range(pre)
        new(m) == m \notin Range(pre)
        kept == SelectSeq(fb, old)
        added == SelectSeq(fb, new)
    IN /\ fb = kept \o added
       /\ IsSubseq(kept, pre)
       /\ IsSubseq(added, AllModels)
       /\ \A i, j \in 1..Len(fb) : trim(Some(fb[i])) = trim(Some(fb[j])) => i = j
       /\ \A i \in 1..Len(pre) :
            (/\ pre[i].type = "string"
             /\ providerFromModel(Some(pre[i])) \in Range(availableProviders)
             /\ Some(pre[i]) # PrimaryOf(config))
            => \E k \in 1..Len(kept) : trim(Some(kept[k])) = trim(Some(pre[i]))

C15_Witness ==
  /\ pc = "exited" /\ Completed
  /\ FallbacksOf(PrePass) = <<Gemini>>
  /\ PrimaryOf(config) = Some(Sonnet)
  /\ availableProviders = <<Anthropic, OpenAICodex, Google>>
  /\ FallbacksOf(readConfig(file)) = <<Gemini, Codex53, Codex52>>

NoCredential ==
  ~IsSet("ANTHROPIC_API_KEY") /\ ~IsSet("OPENAI_API_KEY") /\ ~IsSet("GOOGLE_API_KEY")

\* C16: when no provider credential is set, agents.defaults.model after the
\* pass is what it was before the pass: an absent model stays absent, and a
\* present one keeps its primary and its fallbacks.
C16_ModelUntouched ==
  (Completed /\ NoCredential) => ModelOf(config) = ModelOf(PrePass)

C16_Witness ==
  /\ pc = "exited" /\ Completed /\ NoCredential
  /\ PrePass.agents.kind = "object" /\ PrePass.agents.val.defaults.kind = "object"
  /\ ModelOf(PrePass).kind = "absent"
  /\ ModelOf(readConfig(file)).kind = "absent"
  /\ outcome = "updated"

DefaultsOf(doc) ==
  IF doc.agents.kind = "object" /\ doc.agents.val.defaults.kind = "object"
  THEN doc.agents.val.defaults.val ELSE EmptyDefaults

PruningOf(doc) ==
  IF DefaultsOf(doc).contextPruning.kind = "object"
  THEN DefaultsOf(doc).contextPruning.val ELSE EmptyPruning

CompactionOf(doc) ==
  IF DefaultsOf(doc).compaction.kind = "object"
  THEN DefaultsOf(doc).compaction.val ELSE EmptyCompaction

HeartbeatOf(doc) ==
  IF DefaultsOf(doc).heartbeat.kind = "object"
  THEN DefaultsOf(doc).heartbeat.val ELSE EmptyHeartbeat

\* the field is the value of its variable when that is set, and what it was
\* otherwise
Applied(name, after, before, value) ==
  IF IsSet(name) THEN after = Some(value) ELSE after = before

\* C17: after a pass, each of thinkingDefault, maxConcurrent,
\* contextPruning.mode, contextPruning.ttl, compaction.mode and
\* heartbeat.every holds the value of its own variable when that variable
\* is set, whatever the other variables are, and its pre-pass value when
\* the variable is not set.
C17_TunablesIndependent ==
  Completed =>
    /\ Applied("OPENCLAW_THINKING_DEFAULT", DefaultsOf(config).thinkingDefault,
               DefaultsOf(PrePass).thinkingDefault,
               JStr(trimEnv(env, "OPENCLAW_THINKING_DEFAULT")))
    /\ Applied("OPENCLAW_MAX_CONCURRENT", DefaultsOf(config).maxConcurrent,
               DefaultsOf(PrePass).maxConcurrent,
               Number(trimEnv(env, "OPENCLAW_MAX_CONCURRENT")))
    /\ Applied("OPENCLAW_CONTEXT_PRUNING_MODE", PruningOf(config).mode,
               PruningOf(PrePass).mode,
               JStr(trimEnv(env, "OPENCLAW_CONTEXT_PRUNING_MODE")))
    /\ Applied("OPENCLAW_CONTEXT_PRUNING_TTL", PruningOf(config).ttl,
               PruningOf(PrePass).ttl,
               JStr(trimEnv(env, "OPENCLAW_CONTEXT_PRUNING_TTL")))
    /\ Applied("OPENCLAW_COMPACTION_MODE", CompactionOf(config).mode,
               CompactionOf(PrePass).mode,
               JStr(trimEnv(env, "OPENCLAW_COMPACTION_MODE")))
    /\ Applied("OPENCLAW_HEARTBEAT_EVERY", HeartbeatOf(config).every,
               HeartbeatOf(PrePass).every,
               JStr(trimEnv(env, "OPENCLAW_HEARTBEAT_EVERY")))

\* lines 106-276: the rules of one pass, in order, on a loaded document
Reconcile(doc, e) ==
  LET c1 == AuthProfilesRule(WorkspaceRule(doc, e), e)
      c2 == [c1 EXCEPT !.agents.val.defaults.val =
               AgentDefaultsRule(ModelSelectionRule(@, AvailableProviders(e)), e)]
  IN DiscordRule(TelegramRule(GatewayRule(c2, e), e), e)

\* C18: a pass on a file that exists and is not JSON ends without an error,
\* and leaves the file that a pass on the file "{}" leaves under the same
\* environment: the rules applied to the empty document.
C18_MalformedAsEmpty ==
  (pc = "exited" /\ ~ioFault /\ startFile \in {Malformed, FileOf(EmptyDoc)}) =>
    /\ outcome = "updated" /\ exitStatus = Some(0)
    /\ file = FileOf(JSONstringify(Reconcile(EmptyDoc, env)))

C18_Witness ==
  /\ pc = "exited" /\ startFile = Malformed /\ outcome = "updated"
  /\ file.parses /\ IsSet("ANTHROPIC_API_KEY")
  /\ PrimaryOf(file.json) = Some(Sonnet)

\* C13: whenever the entrypoint has reached the main command, this start
\* has invoked the reconciler exactly once and the reconciler is no longer
\* running; the entrypoint ends short of the main command only before it
\* has invoked the reconciler; and once node has returned a status other
\* than 0 the main command is started.
C13_OnceThenMain ==
  /\ [](ep \in {"post", "main"} => invoked = 1 /\ pc \in {"idle", "exited"})
  /\ [](ep = "died" => invoked = 0 /\ nodeStatus = None)
  /\ []((nodeStatus # None /\ nodeStatus # Some(0)) => <>(ep = "main"))
  /\ [](ep = "node" => <>(ep = "main"))

C13_Witness ==
  /\ ep = "main" /\ invoked = 1 /\ nodeStatus = Some(1)
  /\ pc = "idle" /\ passNo = 1 /\ file = startFile

====
